---- MODULE Spec2Model ----
(***************************************************************************)
(* Model of app/i18n/translations.py: the TranslationService class, its    *)
(* class-level state and its class methods.                                *)
(*                                                                         *)
(* A Python str is modelled as a sequence of atoms.  The atoms ".", "{"    *)
(* and "}" stand for those characters; every other atom stands for a run   *)
(* of ordinary characters.  Keys, segment names, language codes, file      *)
(* names, templates and defaults are all such strings, so that split(),    *)
(* replace(), endswith() and format() are computed, not assumed.           *)
(***************************************************************************)
EXTENDS Integers, Sequences, FiniteSets, TLC

VARIABLES
    i18n_dir,           \* the resource directory on disk (environment)
    _current_language,  \* TranslationService._current_language
    _translations,      \* TranslationService._translations (insertion-ordered dict)
    _is_loaded,         \* TranslationService._is_loaded
    _debug_mode,        \* TranslationService._debug_mode
    _missing_keys,      \* TranslationService._missing_keys
    ret,                \* observation of the last call: arguments, outcome, state before
    callers             \* the callers that share the class: where each one is in
                        \* its call, the locals of that call, the language it chose

vars == <<i18n_dir, _current_language, _translations, _is_loaded,
          _debug_mode, _missing_keys, ret, callers>>

-----------------------------------------------------------------------------
(* Bounds of the model.                                                    *)

\* longest key path, in segments, that callers pass to get
MaxSegments == 2
\* cap on the size of the missing-key set (it only grows)
MaxMissing == 1

-----------------------------------------------------------------------------
(* Python values.                                                          *)

PyStr(s) == [kind |-> "str", val |-> s, items |-> <<>>]
PyDict(f) == [kind |-> "dict", val |-> <<>>, items |-> f]
PyNone == [kind |-> "None", val |-> <<>>, items |-> <<>>]

\* isinstance(value, dict)
IsDict(v) == v.kind = "dict"
\* isinstance(value, str)
IsStr(v) == v.kind = "str"
\* bool(value): None, "" and {} are falsy
Truthy(v) ==
    CASE v.kind = "None" -> FALSE
      [] v.kind = "str" -> v.val # <<>>
      [] v.kind = "dict" -> DOMAIN v.items # {}

\* dict.get(k): the value under k, None when k is absent
DictGetItem(d, k) == IF k \in DOMAIN d.items THEN d.items[k] ELSE PyNone

-----------------------------------------------------------------------------
(* str.split("."), str.endswith, str.replace                               *)

RECURSIVE SplitFrom(_, _, _)
\* scan s from position i; cur is the segment collected so far
SplitFrom(s, i, cur) ==
    IF i > Len(s) THEN <<cur>>
    ELSE IF s[i] = "." THEN <<cur>> \o SplitFrom(s, i + 1, <<>>)
    ELSE SplitFrom(s, i + 1, Append(cur, s[i]))

\* key.split("."): never empty; "" gives [""], "a." gives ["a", ""]
Split(s) == SplitFrom(s, 1, <<>>)

\* f.endswith(suffix)
EndsWith(s, suffix) ==
    /\ Len(s) >= Len(suffix)
    /\ SubSeq(s, Len(s) - Len(suffix) + 1, Len(s)) = suffix

RECURSIVE RemoveAll(_, _)
\* s.replace(old, ""): every non-overlapping occurrence of old removed, left to right
RemoveAll(s, old) ==
    IF Len(s) < Len(old) THEN s
    ELSE IF SubSeq(s, 1, Len(old)) = old
         THEN RemoveAll(SubSeq(s, Len(old) + 1, Len(s)), old)
         ELSE <<s[1]>> \o RemoveAll(Tail(s), old)

JsonSuffix == <<".", "json">>

-----------------------------------------------------------------------------
(* Insertion-ordered dict of bundles: a sequence of [lang, bundle] entries  *)
(* with distinct lang.                                                      *)

\* list(d.keys())
Keys(d) == [i \in 1..Len(d) |-> d[i].lang]
KeySet(d) == {d[i].lang : i \in 1..Len(d)}
\* lang in d
Has(d, lang) == lang \in KeySet(d)
\* d[lang]
Lookup(d, lang) == d[CHOOSE i \in 1..Len(d) : d[i].lang = lang].bundle
\* d[lang] = bundle: an existing key keeps its position, a new key is appended
Store(d, lang, bundle) ==
    IF Has(d, lang)
    THEN [i \in 1..Len(d) |->
            IF d[i].lang = lang THEN [lang |-> lang, bundle |-> bundle] ELSE d[i]]
    ELSE Append(d, [lang |-> lang, bundle |-> bundle])

-----------------------------------------------------------------------------
(* The resource directory.  A directory is [listable, names, content]:      *)
(* os.listdir fails when listable is FALSE; content maps each file name to  *)
(* what open()+json.load() does with it.                                    *)

En == <<"en">>
Tr == <<"tr">>
Ko == <<"ko">>
Languages == {En, Tr, Ko}

FileOk(bundle) == [status |-> "ok", bundle |-> bundle]
FileFails(exc) == [status |-> exc, bundle |-> PyNone]

\* Sample bundles: nested mappings of segment names to string leaves.
BundleEn ==
    PyDict((<<"a">> :> PyDict((<<"a">> :> PyStr(<<"Welcome">>)) @@
                              (<<"b">> :> PyStr(<<>>)))) @@
           (<<"b">> :> PyStr(<<"Age must be at least ", "{", "min", "}">>)))
BundleTr ==
    PyDict((<<"a">> :> PyDict(<<"a">> :> PyStr(<<"Hosgeldin">>))) @@
           (<<"b">> :> PyDict(<<>>)) @@
           (<<"a", ".", "b">> :> PyStr(<<"dotted">>)))
BundleKo ==
    PyDict((<<"a">> :> PyStr(<<"Between ", "{", "min", "}", " and ", "{", "max", "}">>)) @@
           (<<"b">> :> PyDict((<<"a">> :> PyDict(<<"a">> :> PyStr(<<"deep">>))) @@
                              (<<"b">> :> PyStr(<<"50% off ", "}">>)))))

FileEn == <<"en", ".", "json">>
FileTr == <<"tr", ".", "json">>
FileKo == <<"ko", ".", "json">>
FilePy == <<"translations", ".", "py">>

Directories ==
    { \* two good bundles beside the module's own source file
      [listable |-> TRUE, names |-> {FileEn, FileTr, FilePy},
       content |-> (FileEn :> FileOk(BundleEn)) @@ (FileTr :> FileOk(BundleTr)) @@
                   (FilePy :> FileFails("JSONDecodeError"))],
      \* en malformed, two other bundles good
      [listable |-> TRUE, names |-> {FileEn, FileTr, FileKo},
       content |-> (FileEn :> FileFails("JSONDecodeError")) @@
                   (FileTr :> FileOk(BundleTr)) @@ (FileKo :> FileOk(BundleKo))],
      \* every file fails
      [listable |-> TRUE, names |-> {FileEn, FileTr},
       content |-> (FileEn :> FileFails("FileNotFoundError")) @@
                   (FileTr :> FileFails("Exception"))],
      \* no .json file at all
      [listable |-> TRUE, names |-> {FilePy},
       content |-> (FilePy :> FileFails("JSONDecodeError"))],
      \* os.listdir raises
      [listable |-> FALSE, names |-> {}, content |-> <<>>] }

\* os.listdir(i18n_dir): the names in arbitrary order
ListDir(dir) ==
    {p \in [1..Cardinality(dir.names) -> dir.names] :
        \A i, j \in DOMAIN p : p[i] = p[j] => i = j}

-----------------------------------------------------------------------------
(* _load_translations                                                      *)

RECURSIVE LoadFiles_AbortOnError(_, _, _)
\* a loop whose first failing file ends the whole load
LoadFiles_AbortOnError(dir, files, d) ==
    IF files = <<>> THEN d
    ELSE LET filename == Head(files)
             lang == RemoveAll(filename, JsonSuffix)
             file == dir.content[filename]
         IN  IF file.status = "ok"
             THEN LoadFiles_AbortOnError(dir, Tail(files), Store(d, lang, file.bundle))
             ELSE d

RECURSIVE LoadFiles(_, _, _)
\* the for loop over json_files: a file that fails is logged and skipped
LoadFiles(dir, files, d) ==
    IF files = <<>> THEN d
    ELSE LET filename == Head(files)
             lang == RemoveAll(filename, JsonSuffix)
             file == dir.content[filename]
         IN  LoadFiles(dir, Tail(files),
                       IF file.status = "ok" THEN Store(d, lang, file.bundle) ELSE d)

\* the dict after _load_translations ran on dict d, os.listdir returning listing
LoadTranslations(dir, listing, d) ==
    IF ~dir.listable THEN d
    ELSE LET json_files == SelectSeq(listing, LAMBDA f : EndsWith(f, JsonSuffix))
         IN  IF json_files = <<>> THEN d ELSE LoadFiles(dir, json_files, d)

-----------------------------------------------------------------------------
(* Observation of a call.                                                  *)

NoKwargs == <<>>

Before ==
    [language |-> _current_language, debug |-> _debug_mode,
     loaded |-> _is_loaded, missing |-> _missing_keys,
     translations |-> _translations]

NoCall ==
    [op |-> "none", language |-> <<>>, debug |-> FALSE, key |-> <<>>,
     default |-> <<>>, kwargs |-> NoKwargs, result |-> PyNone,
     raised |-> "none", logged |-> {}, scanned |-> FALSE, before |-> Before]

-----------------------------------------------------------------------------
(* initialize                                                              *)

\* initialize without the fallback to "en": an unknown code leaves the pointer alone
InitializeSelect_NoFallback(d, language, current) ==
    IF Has(d, language) THEN [language |-> language, raised |-> "none"]
    ELSE IF Has(d, En) THEN [language |-> current, raised |-> "none"]
    ELSE [language |-> current, raised |-> "ValueError"]

\* initialize that stores the requested code before it is validated
InitializeSelect_AssignFirst(d, language, current) ==
    IF Has(d, language) \/ Has(d, En) THEN [language |-> language, raised |-> "none"]
    ELSE [language |-> current, raised |-> "ValueError"]

\* initialize that falls back to the first loaded bundle when "en" is absent
InitializeSelect_FirstLoaded(d, language, current) ==
    IF Has(d, language) THEN [language |-> language, raised |-> "none"]
    ELSE IF Has(d, En) THEN [language |-> En, raised |-> "none"]
    ELSE IF d # <<>> THEN [language |-> d[1].lang, raised |-> "none"]
    ELSE [language |-> current, raised |-> "ValueError"]

\* "Set language": the pointer after the call and what is raised
\* initialize that puts the pointer back to "en" before it raises
InitializeSelect_ResetOnFailure(d, language, current) ==
    IF Has(d, language) THEN [language |-> language, raised |-> "none"]
    ELSE IF Has(d, En) THEN [language |-> En, raised |-> "none"]
    ELSE [language |-> En, raised |-> "ValueError"]

InitializeSelect(d, language, current) ==
    IF Has(d, language) THEN [language |-> language, raised |-> "none"]
    ELSE IF Has(d, En) THEN [language |-> En, raised |-> "none"]
    ELSE [language |-> current, raised |-> "ValueError"]

\* a service that scans the directory at every initialize
ScanNeeded_Always(loaded) == TRUE

\* "Load translations only once": if not cls._is_loaded
ScanNeeded(loaded) == ~loaded

\* os.listdir is called only by the load, which runs only while not loaded
Listings(loaded, dir) == IF ScanNeeded(loaded) THEN ListDir(dir) ELSE {<<>>}

\* an initialize that marks the engine loaded only when the scan found a bundle
initialize_RetriesEmptyLoad(language, debug) ==
    /\ ret.op = "none"
    /\ \E listing \in Listings(_is_loaded, i18n_dir) :
        LET d == IF ScanNeeded(_is_loaded)
                 THEN LoadTranslations(i18n_dir, listing, _translations)
                 ELSE _translations
            sel == InitializeSelect(d, language, _current_language)
        IN  /\ _debug_mode' = debug
            /\ _translations' = d
            /\ _is_loaded' = (d # <<>>)
            /\ _current_language' = sel.language
            /\ ret' = [NoCall EXCEPT !.op = "initialize", !.language = language,
                                     !.debug = debug, !.raised = sel.raised,
                                     !.scanned = ScanNeeded(_is_loaded)]
            /\ UNCHANGED <<callers, i18n_dir, _missing_keys>>

initialize(language, debug) ==
    /\ ret.op = "none"
    /\ \E listing \in Listings(_is_loaded, i18n_dir) :
        LET d == IF ScanNeeded(_is_loaded)
                 THEN LoadTranslations(i18n_dir, listing, _translations)
                 ELSE _translations
            sel == InitializeSelect(d, language, _current_language)
        IN  /\ _debug_mode' = debug
            /\ _translations' = d
            /\ _is_loaded' = TRUE
            /\ _current_language' = sel.language
            /\ ret' = [NoCall EXCEPT !.op = "initialize", !.language = language,
                                     !.debug = debug, !.raised = sel.raised,
                                     !.scanned = ScanNeeded(_is_loaded)]
            /\ UNCHANGED <<callers, i18n_dir, _missing_keys>>

-----------------------------------------------------------------------------
(* set_language                                                            *)

\* set_language that falls back to "en" on an unknown code, as initialize does
SetLanguageSelect_FallbackEn(loaded, d, language, current) ==
    IF ~loaded THEN [language |-> current, raised |-> "none"]
    ELSE IF Has(d, language) THEN [language |-> language, raised |-> "none"]
    ELSE [language |-> En, raised |-> "ValueError"]

\* set_language that only logs an unknown code
SetLanguageSelect_Silent(loaded, d, language, current) ==
    IF ~loaded THEN [language |-> current, raised |-> "none"]
    ELSE IF Has(d, language) THEN [language |-> language, raised |-> "none"]
    ELSE [language |-> current, raised |-> "none"]

\* set_language that accepts a known code and leaves the pointer where it was
SetLanguageSelect_NoSwitch(loaded, d, language, current) ==
    IF ~loaded THEN [language |-> current, raised |-> "none"]
    ELSE IF Has(d, language) THEN [language |-> current, raised |-> "none"]
    ELSE [language |-> current, raised |-> "ValueError"]

\* the pointer after the call and what is raised
SetLanguageSelect(loaded, d, language, current) ==
    IF ~loaded THEN [language |-> current, raised |-> "none"]
    ELSE IF Has(d, language) THEN [language |-> language, raised |-> "none"]
    ELSE [language |-> current, raised |-> "ValueError"]

set_language(language) ==
    LET sel == SetLanguageSelect(_is_loaded, _translations, language, _current_language)
    IN  /\ ret.op = "none"
        /\ _current_language' = sel.language
        /\ ret' = [NoCall EXCEPT !.op = "set_language", !.language = language,
                                 !.raised = sel.raised]
        /\ UNCHANGED <<callers, i18n_dir, _translations, _is_loaded, _debug_mode, _missing_keys>>

-----------------------------------------------------------------------------
(* str.format with the keyword arguments.  Templates are read left to right as the          *)
(* interpreter does: "{{" and "}}" are escaped braces, "{" name "}" is a    *)
(* replacement field whose name is one atom, a lone brace is an error.      *)
(* The first error met is the one raised.                                  *)

RECURSIVE FormatFrom(_, _, _, _)
FormatFrom(s, i, kwargs, out) ==
    IF i > Len(s) THEN [raised |-> "none", val |-> out]
    ELSE IF s[i] = "{" THEN
        IF i + 1 > Len(s) THEN [raised |-> "ValueError", val |-> <<>>]
        ELSE IF s[i + 1] = "{" THEN FormatFrom(s, i + 2, kwargs, Append(out, "{"))
        ELSE IF s[i + 1] = "}" THEN [raised |-> "IndexError", val |-> <<>>]
        ELSE IF i + 2 > Len(s) \/ s[i + 2] # "}" THEN [raised |-> "ValueError", val |-> <<>>]
        ELSE IF s[i + 1] \notin DOMAIN kwargs THEN [raised |-> "KeyError", val |-> <<>>]
        ELSE FormatFrom(s, i + 3, kwargs, out \o kwargs[s[i + 1]])
    ELSE IF s[i] = "}" THEN
        IF i + 1 <= Len(s) /\ s[i + 1] = "}"
        THEN FormatFrom(s, i + 2, kwargs, Append(out, "}"))
        ELSE [raised |-> "ValueError", val |-> <<>>]
    ELSE FormatFrom(s, i + 1, kwargs, Append(out, s[i]))

\* a format that replaces the first replacement field only
Format_FirstOnly(s, kwargs) ==
    LET fields == {i \in 1..Len(s) : s[i] = "{"}
    IN  IF fields = {} THEN [raised |-> "none", val |-> s]
        ELSE LET i == CHOOSE j \in fields : \A k \in fields : j <= k
             IN  IF i + 2 > Len(s) THEN [raised |-> "ValueError", val |-> <<>>]
                 ELSE IF s[i + 1] \notin DOMAIN kwargs
                      THEN [raised |-> "KeyError", val |-> <<>>]
                      ELSE [raised |-> "none",
                            val |-> SubSeq(s, 1, i - 1) \o kwargs[s[i + 1]]
                                        \o SubSeq(s, i + 3, Len(s))]

\* result.format with the keyword arguments
Format(s, kwargs) == FormatFrom(s, 1, kwargs, <<>>)

-----------------------------------------------------------------------------
(* get                                                                     *)

RECURSIVE Walk_StopAtLeaf(_, _)
\* a walk that takes a leaf met before the segments are exhausted as the hit
Walk_StopAtLeaf(value, keys) ==
    IF keys = <<>> THEN [miss |-> "none", value |-> value]
    ELSE IF IsDict(value)
         THEN LET v == DictGetItem(value, Head(keys))
              IN  IF v.kind = "None"
                  THEN [miss |-> "missing", value |-> PyNone]
                  ELSE Walk_StopAtLeaf(v, Tail(keys))
         ELSE [miss |-> "none", value |-> value]

RECURSIVE Walk(_, _)
\* the for loop over the segments: where it stops and on what value
Walk(value, keys) ==
    IF keys = <<>> THEN [miss |-> "none", value |-> value]
    ELSE IF IsDict(value)
         THEN LET v == DictGetItem(value, Head(keys))
              IN  IF v.kind = "None"
                  THEN [miss |-> "missing", value |-> PyNone]
                  ELSE Walk(v, Tail(keys))
         ELSE [miss |-> "invalid", value |-> PyNone]

\* a lookup that keeps resolving in the first bundle loaded
ActiveBundle_Stale(d, current) == IF d # <<>> THEN d[1].bundle ELSE PyDict(<<>>)

\* value = cls._translations.get(cls._current_language, {})
ActiveBundle(d, current) == IF Has(d, current) THEN Lookup(d, current) ELSE PyDict(<<>>)

\* result = value if value else default
ValueOrDefault(value, default) == IF Truthy(value) THEN value ELSE PyStr(default)

\* a formatting block that lets the KeyError of a missing placeholder leave get
Interpolate_Propagate(result, kwargs) ==
    IF DOMAIN kwargs # {} /\ IsStr(result)
    THEN LET f == Format(result.val, kwargs)
         IN  IF f.raised = "none"
             THEN [raised |-> "none", result |-> PyStr(f.val), logged |-> {}]
             ELSE [raised |-> f.raised, result |-> PyNone, logged |-> {}]
    ELSE [raised |-> "none", result |-> result, logged |-> {}]

\* a formatting block that formats when no placeholder is given too
Interpolate_Always(result, kwargs) ==
    IF IsStr(result)
    THEN LET f == Format(result.val, kwargs)
         IN  CASE f.raised = "none" -> [raised |-> "none", result |-> PyStr(f.val),
                                        logged |-> {}]
               [] f.raised = "KeyError" -> [raised |-> "none", result |-> result,
                                            logged |-> {"missing_placeholder"}]
               [] OTHER -> [raised |-> f.raised, result |-> PyNone, logged |-> {}]
    ELSE [raised |-> "none", result |-> result, logged |-> {}]

\* the formatting block: KeyError is caught and leaves result as it was,
\* any other exception of format() leaves get
Interpolate(result, kwargs) ==
    IF DOMAIN kwargs # {} /\ IsStr(result)
    THEN LET f == Format(result.val, kwargs)
         IN  CASE f.raised = "none" -> [raised |-> "none", result |-> PyStr(f.val),
                                        logged |-> {}]
               [] f.raised = "KeyError" -> [raised |-> "none", result |-> result,
                                            logged |-> {"missing_placeholder"}]
               [] OTHER -> [raised |-> f.raised, result |-> PyNone, logged |-> {}]
    ELSE [raised |-> "none", result |-> result, logged |-> {}]

\* a get whose miss falls through to the formatting block with the default
GetOutcome_FormatDefault(loaded, d, current, debug, missing, key, default, kwargs) ==
    IF ~loaded
    THEN [raised |-> "none", result |-> PyStr(default),
          logged |-> {"not_initialized"}, missing |-> missing]
    ELSE LET w == Walk(ActiveBundle(d, current), Split(key))
             f == Interpolate(IF w.miss # "none" THEN PyStr(default)
                              ELSE ValueOrDefault(w.value, default), kwargs)
             first == w.miss # "none" /\ debug /\ key \notin missing
         IN  [raised |-> f.raised, result |-> f.result,
              logged |-> IF first THEN {w.miss} ELSE f.logged,
              missing |-> IF first THEN missing \cup {key} ELSE missing]

\* a get that logs every miss in debug mode, recorded before or not
GetOutcome_NoDedup(loaded, d, current, debug, missing, key, default, kwargs) ==
    IF ~loaded
    THEN [raised |-> "none", result |-> PyStr(default),
          logged |-> {"not_initialized"}, missing |-> missing]
    ELSE LET w == Walk(ActiveBundle(d, current), Split(key))
         IN  IF w.miss # "none"
             THEN [raised |-> "none", result |-> PyStr(default),
                   logged |-> IF debug THEN {w.miss} ELSE {},
                   missing |-> IF debug THEN missing \cup {key} ELSE missing]
             ELSE LET f == Interpolate(ValueOrDefault(w.value, default), kwargs)
                  IN  [raised |-> f.raised, result |-> f.result,
                       logged |-> f.logged, missing |-> missing]

\* a get that returns the key as a marker when it logs a miss
GetOutcome_DebugMarker(loaded, d, current, debug, missing, key, default, kwargs) ==
    IF ~loaded
    THEN [raised |-> "none", result |-> PyStr(default),
          logged |-> {"not_initialized"}, missing |-> missing]
    ELSE LET w == Walk(ActiveBundle(d, current), Split(key))
         IN  IF w.miss # "none"
             THEN IF debug /\ key \notin missing
                  THEN [raised |-> "none", result |-> PyStr(key),
                        logged |-> {w.miss}, missing |-> missing \cup {key}]
                  ELSE [raised |-> "none", result |-> PyStr(default),
                        logged |-> {}, missing |-> missing]
             ELSE LET f == Interpolate(ValueOrDefault(w.value, default), kwargs)
                  IN  [raised |-> f.raised, result |-> f.result,
                       logged |-> f.logged, missing |-> missing]

\* a get that records every missed key, in debug mode or not
GetOutcome_RecordsAlways(loaded, d, current, debug, missing, key, default, kwargs) ==
    IF ~loaded
    THEN [raised |-> "none", result |-> PyStr(default),
          logged |-> {"not_initialized"}, missing |-> missing]
    ELSE LET w == Walk(ActiveBundle(d, current), Split(key))
         IN  IF w.miss # "none"
             THEN [raised |-> "none", result |-> PyStr(default),
                   logged |-> IF debug /\ key \notin missing THEN {w.miss} ELSE {},
                   missing |-> missing \cup {key}]
             ELSE LET f == Interpolate(ValueOrDefault(w.value, default), kwargs)
                  IN  [raised |-> f.raised, result |-> f.result,
                       logged |-> f.logged, missing |-> missing]

\* what get returns, raises and logs, and the missing-key set afterwards
GetOutcome(loaded, d, current, debug, missing, key, default, kwargs) ==
    IF ~loaded
    THEN [raised |-> "none", result |-> PyStr(default),
          logged |-> {"not_initialized"}, missing |-> missing]
    ELSE LET w == Walk(ActiveBundle(d, current), Split(key))
         IN  IF w.miss # "none"
             THEN IF debug /\ key \notin missing
                  THEN [raised |-> "none", result |-> PyStr(default),
                        logged |-> {w.miss}, missing |-> missing \cup {key}]
                  ELSE [raised |-> "none", result |-> PyStr(default),
                        logged |-> {}, missing |-> missing]
             ELSE LET f == Interpolate(ValueOrDefault(w.value, default), kwargs)
                  IN  [raised |-> f.raised, result |-> f.result,
                       logged |-> f.logged, missing |-> missing]

get(key, default, kwargs) ==
    LET o == GetOutcome(_is_loaded, _translations, _current_language, _debug_mode,
                        _missing_keys, key, default, kwargs)
    IN  /\ ret.op = "none"
        /\ Cardinality(o.missing) <= MaxMissing
        /\ _missing_keys' = o.missing
        /\ ret' = [NoCall EXCEPT !.op = "get", !.key = key, !.default = default,
                                 !.kwargs = kwargs, !.result = o.result,
                                 !.raised = o.raised, !.logged = o.logged]
        /\ UNCHANGED <<callers, i18n_dir, _current_language, _translations, _is_loaded, _debug_mode>>

-----------------------------------------------------------------------------
(* Arguments callers pass.                                                 *)

Segments == {<<"a">>, <<"b">>}

RECURSIVE Join(_)
\* the segments of a path separated by "."
Join(path) ==
    IF Len(path) = 1 THEN path[1] ELSE path[1] \o <<".">> \o Join(Tail(path))

KeyPaths == UNION {[1..n -> Segments] : n \in 1..MaxSegments}

\* dotted keys of up to MaxSegments segments, the empty key and a key ending in "."
KeyStrings == {Join(p) : p \in KeyPaths} \cup {<<>>, <<"a", ".">>}

Defaults == {<<>>, <<"DEFAULT">>, <<"At least ", "{", "min", "}">>}

KwargSets ==
    {NoKwargs, "min" :> <<"18">>, "max" :> <<"5">>,
     ("min" :> <<"18">>) @@ ("max" :> <<"5">>)}

-----------------------------------------------------------------------------
(* get_current_language, get_available_languages                           *)

PyList(seq) == [kind |-> "list", val |-> seq, items |-> <<>>]

get_current_language ==
    /\ ret.op = "none"
    /\ ret' = [NoCall EXCEPT !.op = "get_current_language",
                             !.result = PyStr(_current_language)]
    /\ UNCHANGED <<callers, i18n_dir, _current_language, _translations, _is_loaded,
                   _debug_mode, _missing_keys>>

get_available_languages ==
    /\ ret.op = "none"
    /\ ret' = [NoCall EXCEPT !.op = "get_available_languages",
                             !.result = PyList(Keys(_translations))]
    /\ UNCHANGED <<callers, i18n_dir, _current_language, _translations, _is_loaded,
                   _debug_mode, _missing_keys>>

-----------------------------------------------------------------------------
(* validate_keys_consistency and _get_all_keys                             *)

RECURSIVE GetAllKeys_EmitsInterior(_, _)
\* a flatten that emits the path of every interior mapping as well
GetAllKeys_EmitsInterior(obj, prefix) ==
    UNION { LET full_key == IF prefix # <<>> THEN prefix \o <<".">> \o k ELSE k
                v == obj.items[k]
            IN  IF IsDict(v) THEN {full_key} \cup GetAllKeys_EmitsInterior(v, full_key)
                ELSE {full_key}
            : k \in DOMAIN obj.items }

RECURSIVE GetAllKeys_LeafNames(_, _)
\* a flatten that emits the name of each leaf without the path that leads to it
GetAllKeys_LeafNames(obj, prefix) ==
    UNION { LET v == obj.items[k]
            IN  IF IsDict(v) THEN GetAllKeys_LeafNames(v, k) ELSE {k}
            : k \in DOMAIN obj.items }

RECURSIVE GetAllKeys(_, _)
\* _get_all_keys(obj, prefix): the dot-joined paths of the leaves below obj
GetAllKeys(obj, prefix) ==
    UNION { LET full_key == IF prefix # <<>> THEN prefix \o <<".">> \o k ELSE k
                v == obj.items[k]
            IN  IF IsDict(v) THEN GetAllKeys(v, full_key) ELSE {full_key}
            : k \in DOMAIN obj.items }

\* code point order of the atoms that occur in key paths
AtomRank(a) == CASE a = "." -> 46 [] a = "a" -> 97 [] a = "b" -> 98 [] OTHER -> 99

RECURSIVE StrLess(_, _)
\* s < t for Python strings
StrLess(s, t) ==
    IF s = <<>> THEN t # <<>>
    ELSE IF t = <<>> THEN FALSE
    ELSE IF s[1] = t[1] THEN StrLess(Tail(s), Tail(t))
    ELSE AtomRank(s[1]) < AtomRank(t[1])

RECURSIVE Sorted(_)
\* sorted(S)
Sorted(S) ==
    IF S = {} THEN <<>>
    ELSE LET m == CHOOSE x \in S : \A y \in S \ {x} : StrLess(x, y)
         IN  <<m>> \o Sorted(S \ {m})

\* an entry with the two differences taken the wrong way round
LanguageEntry_Swapped(reference_keys, lang_keys) ==
    LET missing == lang_keys \ reference_keys
        extra == reference_keys \ lang_keys
    IN  [key_count |-> Cardinality(lang_keys),
         missing_keys |-> IF missing # {} THEN Sorted(missing) ELSE <<>>,
         extra_keys |-> IF extra # {} THEN Sorted(extra) ELSE <<>>,
         is_consistent |-> Cardinality(missing) = 0 /\ Cardinality(extra) = 0]

\* one entry of report["languages"]
LanguageEntry(reference_keys, lang_keys) ==
    LET missing == reference_keys \ lang_keys
        extra == lang_keys \ reference_keys
    IN  [key_count |-> Cardinality(lang_keys),
         missing_keys |-> IF missing # {} THEN Sorted(missing) ELSE <<>>,
         extra_keys |-> IF extra # {} THEN Sorted(extra) ELSE <<>>,
         is_consistent |-> Cardinality(missing) = 0 /\ Cardinality(extra) = 0]

\* a report whose reference is the first loaded bundle even when "en" is loaded
Report_FirstLoaded(d) ==
    IF d = <<>> THEN [kind |-> "dict", val |-> <<>>, items |-> <<>>]
    ELSE LET reference_lang == Keys(d)[1]
             reference_keys == GetAllKeys(Lookup(d, reference_lang), <<>>)
         IN  [kind |-> "report", val |-> <<>>,
              items |-> [reference_language |-> reference_lang,
                         reference_key_count |-> Cardinality(reference_keys),
                         languages |->
                            [lang \in KeySet(d) |->
                                LanguageEntry(reference_keys,
                                              GetAllKeys(Lookup(d, lang), <<>>))]]]

\* the report of validate_keys_consistency for dict d
Report(d) ==
    IF d = <<>> THEN [kind |-> "dict", val |-> <<>>, items |-> <<>>]
    ELSE LET reference_lang == IF ~Has(d, En) THEN Keys(d)[1] ELSE En
             reference_keys == GetAllKeys(Lookup(d, reference_lang), <<>>)
         IN  [kind |-> "report", val |-> <<>>,
              items |-> [reference_language |-> reference_lang,
                         reference_key_count |-> Cardinality(reference_keys),
                         languages |->
                            [lang \in KeySet(d) |->
                                LanguageEntry(reference_keys,
                                              GetAllKeys(Lookup(d, lang), <<>>))]]]

\* an audit that leaves the reference language selected
validate_keys_consistency_SelectsReference ==
    /\ ret.op = "none"
    /\ ret' = [NoCall EXCEPT !.op = "validate_keys_consistency",
                             !.result = Report(_translations)]
    /\ _current_language' = IF _translations = <<>> THEN _current_language
                            ELSE Report(_translations).items.reference_language
    /\ UNCHANGED <<callers, i18n_dir, _translations, _is_loaded, _debug_mode, _missing_keys>>

validate_keys_consistency ==
    /\ ret.op = "none"
    /\ ret' = [NoCall EXCEPT !.op = "validate_keys_consistency",
                             !.result = Report(_translations)]
    /\ UNCHANGED <<callers, i18n_dir, _current_language, _translations, _is_loaded,
                   _debug_mode, _missing_keys>>

-----------------------------------------------------------------------------
(* The caller takes the outcome of its call (the value returned or the     *)
(* exception raised) and goes on to its next call.                          *)

ReturnToCaller ==
    /\ ret.op # "none"
    /\ ret' = NoCall
    /\ UNCHANGED <<callers, i18n_dir, _current_language, _translations, _is_loaded,
                   _debug_mode, _missing_keys>>

-----------------------------------------------------------------------------
(* Callers sharing the class (the login and the signup controller both     *)
(* call initialize and T on the one TranslationService).                    *)

Callers == {"login", "signup"}

\* what the controllers pass: get(key, default) with a two-segment key or a
\* one-segment one, a plain default and no placeholders; initialize(debug=False)
CallerKeys == {<<"a", ".", "a">>, <<"b", ".", "b">>, <<"b">>}
CallerDefaults == {<<"DEFAULT">>}
CallerKwargSets == {NoKwargs}
CallerDebug == {FALSE}

\* a caller between two calls; selected is the code its last successful
\* initialize or set_language made active (<<>>: none yet)
Idle(selected) ==
    [pc |-> "idle", selected |-> selected, language |-> <<>>, key |-> <<>>,
     default |-> <<>>, kwargs |-> NoKwargs, keys |-> <<>>, i |-> 0,
     value |-> PyNone, current |-> <<>>, result |-> PyNone, raised |-> "none"]

\* one iteration of the for loop of get on segment k
WalkStep(value, k) ==
    IF IsDict(value)
    THEN LET v == DictGetItem(value, k)
         IN  IF v.kind = "None" THEN [miss |-> "missing", value |-> PyNone]
             ELSE [miss |-> "none", value |-> v]
    ELSE [miss |-> "invalid", value |-> PyNone]

\* lines 43-48 of initialize: the debug flag, and the load if none was done
initialize_load(q, language, debug) ==
    /\ callers[q].pc = "idle"
    /\ \E listing \in Listings(_is_loaded, i18n_dir) :
          /\ _translations' = IF ScanNeeded(_is_loaded)
                              THEN LoadTranslations(i18n_dir, listing, _translations)
                              ELSE _translations
          /\ _debug_mode' = debug
          /\ _is_loaded' = TRUE
          /\ callers' = [callers EXCEPT ![q].pc = "initialize_select",
                                        ![q].language = language]
          /\ UNCHANGED <<i18n_dir, _current_language, _missing_keys, ret>>

\* lines 51-65 of initialize: select the language, fall back to "en" or raise
initialize_select(q) ==
    LET sel == InitializeSelect(_translations, callers[q].language, _current_language)
    IN  /\ callers[q].pc = "initialize_select"
        /\ _current_language' = sel.language
        /\ callers' = [callers EXCEPT ![q] =
                          Idle(IF sel.raised = "none" THEN sel.language
                               ELSE callers[q].selected)]
        /\ UNCHANGED <<i18n_dir, _translations, _is_loaded, _debug_mode,
                       _missing_keys, ret>>

\* set_language by caller q
caller_set_language(q, language) ==
    LET sel == SetLanguageSelect(_is_loaded, _translations, language, _current_language)
    IN  /\ callers[q].pc = "idle"
        /\ _current_language' = sel.language
        /\ callers' = [callers EXCEPT ![q].selected =
                          IF _is_loaded /\ sel.raised = "none" THEN sel.language
                          ELSE callers[q].selected]
        /\ UNCHANGED <<i18n_dir, _translations, _is_loaded, _debug_mode,
                       _missing_keys, ret>>

\* lines 136-138 of get: return default when nothing is loaded
get_enter(q, key, default, kwargs) ==
    /\ callers[q].pc = "idle"
    /\ callers' = [callers EXCEPT ![q] =
          IF ~_is_loaded
          THEN [@ EXCEPT !.pc = "returned", !.key = key, !.default = default,
                         !.kwargs = kwargs, !.result = PyStr(default)]
          ELSE [@ EXCEPT !.pc = "get_read", !.key = key, !.default = default,
                         !.kwargs = kwargs]]
    /\ UNCHANGED <<i18n_dir, _current_language, _translations, _is_loaded,
                   _debug_mode, _missing_keys, ret>>

\* a get that takes the bundle of the language its own caller chose last
get_read_OwnLanguage(q) ==
    /\ callers[q].pc = "get_read"
    /\ callers' = [callers EXCEPT ![q].pc = "get_iterate",
                                  ![q].keys = Split(callers[q].key),
                                  ![q].i = 0,
                                  ![q].value = ActiveBundle(_translations,
                                                   IF callers[q].selected # <<>>
                                                   THEN callers[q].selected
                                                   ELSE _current_language),
                                  ![q].current = _current_language]
    /\ UNCHANGED <<i18n_dir, _current_language, _translations, _is_loaded,
                   _debug_mode, _missing_keys, ret>>

\* lines 140-141 of get: split the key, take the bundle of the active language;
\* current notes which language the pointer named at that moment
get_read(q) ==
    /\ callers[q].pc = "get_read"
    /\ callers' = [callers EXCEPT ![q].pc = "get_iterate",
                                  ![q].keys = Split(callers[q].key),
                                  ![q].i = 0,
                                  ![q].value = ActiveBundle(_translations, _current_language),
                                  ![q].current = _current_language]
    /\ UNCHANGED <<i18n_dir, _current_language, _translations, _is_loaded,
                   _debug_mode, _missing_keys, ret>>

\* a loop that looks the active bundle up again at every iteration
get_iterate_RereadsPointer(q) ==
    LET c == callers[q]
        w == Walk(ActiveBundle(_translations, _current_language),
                  SubSeq(c.keys, 1, c.i + 1))
        first == w.miss # "none" /\ _debug_mode /\ c.key \notin _missing_keys
    IN  /\ c.pc = "get_iterate"
        /\ c.i < Len(c.keys)
        /\ first => Cardinality(_missing_keys) < MaxMissing
        /\ _missing_keys' = IF first THEN _missing_keys \cup {c.key} ELSE _missing_keys
        /\ callers' = [callers EXCEPT ![q] =
              IF w.miss # "none"
              THEN [c EXCEPT !.pc = "returned", !.result = PyStr(c.default)]
              ELSE [c EXCEPT !.value = w.value, !.i = c.i + 1]]
        /\ UNCHANGED <<i18n_dir, _current_language, _translations, _is_loaded,
                       _debug_mode, ret>>

\* lines 143-158 of get: one iteration of the loop over the segments
get_iterate(q) ==
    LET c == callers[q]
        w == WalkStep(c.value, c.keys[c.i + 1])
        first == w.miss # "none" /\ _debug_mode /\ c.key \notin _missing_keys
    IN  /\ c.pc = "get_iterate"
        /\ c.i < Len(c.keys)
        /\ first => Cardinality(_missing_keys) < MaxMissing
        /\ _missing_keys' = IF first THEN _missing_keys \cup {c.key} ELSE _missing_keys
        /\ callers' = [callers EXCEPT ![q] =
              IF w.miss # "none"
              THEN [c EXCEPT !.pc = "returned", !.result = PyStr(c.default)]
              ELSE [c EXCEPT !.value = w.value, !.i = c.i + 1]]
        /\ UNCHANGED <<i18n_dir, _current_language, _translations, _is_loaded,
                       _debug_mode, ret>>

\* lines 160-171 of get: the value or the default, formatted
get_finish(q) ==
    LET c == callers[q]
        f == Interpolate(ValueOrDefault(c.value, c.default), c.kwargs)
    IN  /\ c.pc = "get_iterate"
        /\ c.i = Len(c.keys)
        /\ callers' = [callers EXCEPT ![q].pc = "returned", ![q].result = f.result,
                                      ![q].raised = f.raised]
        /\ UNCHANGED <<i18n_dir, _current_language, _translations, _is_loaded,
                       _debug_mode, _missing_keys, ret>>

\* the caller takes the outcome of get and goes on
caller_returns(q) ==
    /\ callers[q].pc = "returned"
    /\ callers' = [callers EXCEPT ![q] = Idle(callers[q].selected)]
    /\ UNCHANGED <<i18n_dir, _current_language, _translations, _is_loaded,
                   _debug_mode, _missing_keys, ret>>

-----------------------------------------------------------------------------

Init ==
    /\ i18n_dir \in Directories
    /\ _current_language = En
    /\ _translations = <<>>
    /\ _is_loaded = FALSE
    /\ _debug_mode = FALSE
    /\ _missing_keys = {}
    /\ ret = NoCall
    /\ callers = [q \in Callers |-> Idle(<<>>)]

Next ==
    \/ \E language \in Languages, debug \in BOOLEAN : initialize(language, debug)
    \/ \E language \in Languages : set_language(language)
    \/ \E key \in KeyStrings, default \in Defaults, kwargs \in KwargSets :
          get(key, default, kwargs)
    \/ get_current_language
    \/ get_available_languages
    \/ validate_keys_consistency
    \/ ReturnToCaller

Spec == Init /\ [][Next]_vars

-----------------------------------------------------------------------------
(* Two callers that share the class, each at its own position in its own    *)
(* call.  A step of one caller is the code between two points at which the  *)
(* other caller can run: the load-once part of initialize (lines 43-48),    *)
(* its selection part (51-65), set_language (184-198), and in get the       *)
(* not-initialized test (136-138), the read of the active bundle (140-141), *)
(* one iteration of the for loop (143-158) and the rest (160-171).          *)

NextCallers ==
    \E q \in Callers :
        \/ \E language \in Languages, debug \in CallerDebug :
              initialize_load(q, language, debug)
        \/ initialize_select(q)
        \/ \E language \in Languages : caller_set_language(q, language)
        \/ \E key \in CallerKeys, default \in CallerDefaults, kwargs \in CallerKwargSets :
              get_enter(q, key, default, kwargs)
        \/ get_read(q)
        \/ get_iterate(q)
        \/ get_finish(q)
        \/ caller_returns(q)

SpecCallers == Init /\ [][NextCallers]_vars

-----------------------------------------------------------------------------
(* Properties.                                                             *)

RECURSIVE NodeAt(_, _)
\* the node of a bundle that a path of segments addresses through interior
\* mappings: {node}, or {} when a segment is absent or a leaf is indexed
NodeAt(node, segs) ==
    IF segs = <<>> THEN {node}
    ELSE IF IsDict(node) /\ Head(segs) \in DOMAIN node.items
         THEN NodeAt(node.items[Head(segs)], Tail(segs))
         ELSE {}

\* what the key of the last call addresses in the bundle of the active language
Addressed == NodeAt(Lookup(_translations, _current_language), Split(ret.key))

\* the last call was get on a loaded engine whose active language has a bundle
GotFromActiveBundle ==
    /\ ret.op = "get"
    /\ ret.before.loaded
    /\ Has(_translations, _current_language)

\* the last call was set_language with a code that has no loaded bundle
SwitchToUnknown == ret.op = "set_language" /\ ~Has(_translations, ret.language)

\* C1: get(key, default), called without placeholders, returns a string and
\* never raises, in every engine state.
C1_GetReturnsString ==
    (ret.op = "get" /\ ret.kwargs = NoKwargs)
        => (ret.raised = "none" /\ IsStr(ret.result))

\* C2: set_language with a code that has no loaded bundle leaves the active
\* pointer at the value it had before the call, and get_current_language
\* returns the pointer.
C2_RejectedSwitchAtomic ==
    /\ SwitchToUnknown => _current_language = ret.before.language
    /\ ret.op = "get_current_language" => ret.result = PyStr(_current_language)

C2_Witness ==
    /\ SwitchToUnknown
    /\ ret.raised = "ValueError"
    /\ ret.before.language = Tr

C4_PointerInCatalog ==
    _translations # <<>> => Has(_translations, _current_language)

\* C4 amended: once the catalog holds a bundle, the active pointer names a
\* code present in the catalog or is still "en" while "en" has no bundle;
\* after an initialize or set_language that returned normally it names a
\* code present in the catalog.
C4_PointerInCatalogOrEn ==
    _translations # <<>> =>
        /\ Has(_translations, _current_language)
             \/ (_current_language = En /\ ~Has(_translations, En))
        /\ (ret.op \in {"initialize", "set_language"} /\ ret.raised = "none")
             => Has(_translations, _current_language)

C4_Witness ==
    /\ _translations # <<>>
    /\ ~Has(_translations, En)
    /\ ret.op = "set_language"
    /\ ret.raised = "none"
    /\ ret.before.language = En
    /\ _current_language = Ko

\* C5: get(key) for a key that addresses a non-empty string leaf of the
\* bundle of the active language returns exactly that leaf.
C5_GetReturnsActiveLeaf ==
    (GotFromActiveBundle /\ ret.kwargs = NoKwargs) =>
        \A node \in Addressed :
            (IsStr(node) /\ node.val # <<>>)
                => (ret.raised = "none" /\ ret.result = node)

C5_Witness ==
    /\ GotFromActiveBundle
    /\ ret.kwargs = NoKwargs
    /\ Has(_translations, En)
    /\ _current_language = Tr
    /\ ret.key = <<"a", ".", "a">>
    /\ ret.result = PyStr(<<"Hosgeldin">>)

\* C6: get(key, default) for a key path that does not resolve through
\* interior mappings (a segment is absent, or a leaf is indexed as a
\* mapping) returns exactly the default, for every active language.
C6_MissReturnsDefault ==
    (GotFromActiveBundle /\ Addressed = {})
        => (ret.raised = "none" /\ ret.result = PyStr(ret.default))

\* a leaf indexed as if it were a mapping: the path is too long
C6_Witness ==
    /\ GotFromActiveBundle
    /\ Addressed = {}
    /\ \E n \in 1..(Len(Split(ret.key)) - 1) :
          \E node \in NodeAt(Lookup(_translations, _current_language),
                             SubSeq(Split(ret.key), 1, n)) : IsStr(node)
    /\ ret.default = <<"DEFAULT">>
    /\ ret.result = PyStr(<<"DEFAULT">>)

\* C7: when the walk consumes every segment and ends at a mapping, get
\* returns the default.
C7_ShortPathReturnsDefault ==
    GotFromActiveBundle =>
        \A node \in Addressed :
            IsDict(node) => ret.result = PyStr(ret.default)

\* C8: initialize sets the pointer to the requested code when it has a
\* bundle, and to "en" when it has none and "en" has one, without raising.
C8_InitializeSelects ==
    ret.op = "initialize" =>
        /\ Has(_translations, ret.language)
             => (_current_language = ret.language /\ ret.raised = "none")
        /\ (~Has(_translations, ret.language) /\ Has(_translations, En))
             => (_current_language = En /\ ret.raised = "none")

C8_Witness ==
    /\ ret.op = "initialize"
    /\ ~Has(_translations, ret.language)
    /\ ret.before.language = Tr
    /\ _current_language = En

\* C9 as stated: with at least one bundle loaded, initialize falls back and
\* does not raise.
C9_NoRaiseWhenAnyLoaded ==
    (ret.op = "initialize" /\ _translations # <<>>) => ret.raised = "none"

\* C9 amended: initialize raises if and only if neither the requested code
\* nor "en" has a loaded bundle; no other loaded bundle serves as fallback.
C9_RaisesIffNoRequestedNoEn ==
    ret.op = "initialize" =>
        (ret.raised = "ValueError"
            <=> (~Has(_translations, ret.language) /\ ~Has(_translations, En)))

C9_Witness ==
    /\ ret.op = "initialize"
    /\ ret.raised = "ValueError"
    /\ _translations # <<>>

\* C10: when initialize raises, the active pointer and the debug flag have
\* the values they had before the call.
C10_FailedInitializeRestores ==
    (ret.op = "initialize" /\ ret.raised # "none") =>
        /\ _current_language = ret.before.language
        /\ _debug_mode = ret.before.debug

-----------------------------------------------------------------------------

\* C11: once a first initialize has loaded the catalog, no later call
\* (initialize with any language and debug value, set_language, get, audit)
\* changes the catalog, and the directory is not scanned again.
C11_CatalogWriteOnce ==
    /\ (ret.op # "none" /\ ret.before.loaded)
           => (_translations = ret.before.translations /\ ~ret.scanned)
    /\ ret.op \notin {"none", "initialize"}
           => _translations = ret.before.translations

C11_Witness ==
    /\ ret.op = "initialize"
    /\ ret.before.loaded
    /\ _translations # <<>>
    /\ ret.language # ret.before.language
    /\ ret.debug # ret.before.debug
    /\ ret.raised = "none"

\* the codes of the .json files of a directory that parse
ParsedCodes(dir) ==
    IF dir.listable
    THEN {RemoveAll(f, JsonSuffix) :
            f \in {g \in dir.names :
                      EndsWith(g, JsonSuffix) /\ dir.content[g].status = "ok"}}
    ELSE {}

\* some .json file of the directory fails to load
SomeFileFails(dir) ==
    \E g \in dir.names : EndsWith(g, JsonSuffix) /\ dir.content[g].status # "ok"

\* C12: a file that fails to load does not abort the load: once loaded, the
\* available languages are exactly the codes of the files that parsed,
\* whatever the order of the scan.
C12_FailuresIsolated ==
    /\ _is_loaded => KeySet(_translations) = ParsedCodes(i18n_dir)
    /\ ret.op = "get_available_languages" =>
          /\ {ret.result.val[i] : i \in DOMAIN ret.result.val} = KeySet(_translations)
          /\ Len(ret.result.val) = Cardinality(KeySet(_translations))

C12_Witness ==
    /\ ret.op = "get_available_languages"
    /\ _is_loaded
    /\ SomeFileFails(i18n_dir)
    /\ ret.result.val = <<Ko, Tr>>

-----------------------------------------------------------------------------

\* C13: whenever the catalog holds no bundle, every get, with any key,
\* default and placeholders, returns the caller's default.
C13_EmptyCatalogReturnsDefault ==
    (ret.op = "get" /\ _translations = <<>>)
        => (ret.raised = "none" /\ ret.result = PyStr(ret.default))

C13_Witness ==
    /\ ret.op = "get"
    /\ _is_loaded
    /\ _translations = <<>>
    /\ "min" \in DOMAIN ret.kwargs
    /\ ret.default = <<"At least ", "{", "min", "}">>
    /\ ret.result = PyStr(ret.default)

\* the names of the {name} tokens of a template
TokenNames(t) ==
    {t[i + 1] : i \in {j \in 1..(Len(t) - 2) : t[j] = "{" /\ t[j + 2] = "}"}}

\* a template made of text and {name} tokens only
PlainTemplate(t) ==
    \A i \in 1..Len(t) :
        /\ t[i] = "{" => (i + 2 <= Len(t) /\ t[i + 1] \notin {"{", "}"} /\ t[i + 2] = "}")
        /\ t[i] = "}" => (i >= 3 /\ t[i - 2] = "{")

RECURSIVE Substituted(_, _)
\* a plain template with each {name} token replaced by the value given for name
Substituted(t, values) ==
    IF t = <<>> THEN <<>>
    ELSE IF t[1] = "{"
         THEN values[t[2]] \o Substituted(SubSeq(t, 4, Len(t)), values)
         ELSE <<t[1]>> \o Substituted(Tail(t), values)

\* the non-empty plain templates the key of the last get resolves to
ResolvedTemplates ==
    {node \in Addressed : IsStr(node) /\ node.val # <<>> /\ PlainTemplate(node.val)}

C15_MissingPlaceholderSoft ==
    (GotFromActiveBundle /\ ret.kwargs # NoKwargs) =>
        \A node \in ResolvedTemplates :
            ~(TokenNames(node.val) \subseteq DOMAIN ret.kwargs)
                => (ret.raised = "none" /\ ret.result = node)

C15_Witness ==
    /\ GotFromActiveBundle
    /\ ret.kwargs = ("min" :> <<"18">>)
    /\ \E node \in ResolvedTemplates :
          /\ TokenNames(node.val) = {"min", "max"}
          /\ ret.result = node
    /\ ret.logged = {"missing_placeholder"}

\* C16: get on a key whose leaf is the empty string returns what get returns
\* on an unresolvable key called with the same default and placeholders.
C16_EmptyLeafLikeMissing ==
    (GotFromActiveBundle /\ Addressed = {PyStr(<<>>)}) =>
        \A other \in KeyStrings :
            NodeAt(Lookup(_translations, _current_language), Split(other)) = {} =>
                LET o == GetOutcome(TRUE, _translations, _current_language, _debug_mode,
                                    _missing_keys, other, ret.default, ret.kwargs)
                IN  o.raised = ret.raised /\ o.result = ret.result

\* the last call was get on a loaded engine and its key resolves to nothing
\* in the bundle of the active language
Missed ==
    /\ ret.op = "get"
    /\ ret.before.loaded
    /\ (~Has(_translations, _current_language) \/ Addressed = {})

\* the diagnostics of a missing key
MissDiagnostics == {"missing", "invalid"}

\* C17: the first miss of a key while debug is on emits exactly one
\* diagnostic and records the key; a recorded key stays recorded through
\* every call, and a miss of a recorded key emits no diagnostic, whatever
\* language is active.
C17_DiagnosticsDeduplicated ==
    /\ ret.op # "none" => ret.before.missing \subseteq _missing_keys
    /\ (Missed /\ _debug_mode /\ ret.key \notin ret.before.missing)
          => /\ Cardinality(ret.logged) = 1
             /\ ret.logged \subseteq MissDiagnostics
             /\ _missing_keys = ret.before.missing \cup {ret.key}
    /\ (ret.op = "get" /\ ret.key \in ret.before.missing)
          => ret.logged \cap MissDiagnostics = {}
    /\ (ret.op # "none" /\ ~(Missed /\ _debug_mode))
          => (ret.logged \cap MissDiagnostics = {} /\ _missing_keys = ret.before.missing)

C17_Witness ==
    /\ Missed
    /\ _debug_mode
    /\ _current_language = Tr
    /\ Has(_translations, En)
    /\ NodeAt(Lookup(_translations, En), Split(ret.key)) = {}
    /\ ret.key \in ret.before.missing
    /\ ret.logged = {}

\* C18: get returns the same value, or raises the same exception, in every
\* engine state with the same catalog and active language, whatever the debug
\* flag and the missing-key set are.
C18_DiagnosticsDoNotInfluence ==
    ret.op = "get" =>
        \A debug \in BOOLEAN, missing \in {{}, {ret.key}, KeyStrings} :
            LET o == GetOutcome(ret.before.loaded, _translations, _current_language,
                                debug, missing, ret.key, ret.default, ret.kwargs)
            IN  o.result = ret.result /\ o.raised = ret.raised

C18_Witness ==
    /\ Missed
    /\ _debug_mode
    /\ ret.key \notin ret.before.missing
    /\ ret.logged \cap MissDiagnostics # {}
    /\ ret.default = <<"DEFAULT">>
    /\ ret.result = PyStr(ret.default)

\* the elements of a list
Elements(list) == {list[i] : i \in DOMAIN list}

\* the last call was the audit of a catalog that holds a bundle
Audited == ret.op = "validate_keys_consistency" /\ _translations # <<>>

\* C19: the audit report has one entry for every loaded language, the
\* reference included; missing_keys is the reference's flattened keys minus
\* the language's, extra_keys the language's minus the reference's, and
\* is_consistent is true exactly when both are empty.
C19_AuditReport ==
    Audited =>
        LET report == ret.result.items
            reference == report.reference_language
            reference_keys == GetAllKeys(Lookup(_translations, reference), <<>>)
        IN  /\ ret.result.kind = "report"
            /\ DOMAIN report.languages = KeySet(_translations)
            /\ reference \in DOMAIN report.languages
            /\ report.languages[reference].is_consistent
            /\ \A lang \in DOMAIN report.languages :
                  LET entry == report.languages[lang]
                      lang_keys == GetAllKeys(Lookup(_translations, lang), <<>>)
                  IN  /\ Elements(entry.missing_keys) = reference_keys \ lang_keys
                      /\ Len(entry.missing_keys) = Cardinality(reference_keys \ lang_keys)
                      /\ Elements(entry.extra_keys) = lang_keys \ reference_keys
                      /\ Len(entry.extra_keys) = Cardinality(lang_keys \ reference_keys)
                      /\ entry.is_consistent
                            <=> (entry.missing_keys = <<>> /\ entry.extra_keys = <<>>)

C19_Witness ==
    /\ Audited
    /\ ret.result.items.reference_language = En
    /\ ret.result.items.languages[En].is_consistent
    /\ Has(_translations, Tr)
    /\ ret.result.items.languages[Tr].missing_keys = << <<"b">> >>
    /\ ret.result.items.languages[Tr].extra_keys = <<>>
    /\ ~ret.result.items.languages[Tr].is_consistent

\* C20: the audit leaves the catalog, the active-language pointer, the debug
\* flag and the missing-key set as they were, and its report is determined
\* by the catalog alone.
C20_AuditPure ==
    ret.op = "validate_keys_consistency" =>
        /\ _translations = ret.before.translations
        /\ _current_language = ret.before.language
        /\ _debug_mode = ret.before.debug
        /\ _missing_keys = ret.before.missing
        /\ _is_loaded = ret.before.loaded
        /\ ret.result = Report(ret.before.translations)

C20_Witness ==
    /\ Audited
    /\ _debug_mode
    /\ _missing_keys # {}
    /\ _current_language # ret.result.items.reference_language
    /\ \E lang \in KeySet(_translations) : ~ret.result.items.languages[lang].is_consistent

\* C21: set_language with a code that get_available_languages lists does not
\* raise and makes that code the active language, whatever was active before.
C21_AvailableCodeSelectable ==
    (ret.op = "set_language" /\ ret.language \in Elements(PyList(Keys(_translations)).val))
        => (ret.raised = "none" /\ _current_language = ret.language)

C21_Witness ==
    /\ ret.op = "set_language"
    /\ ret.language = Ko
    /\ ret.before.language = Tr
    /\ ret.raised = "none"
    /\ _current_language = Ko

\* C22: get without placeholders returns the resolved non-empty template as
\* it is stored, {name} tokens and lone braces included.
C22_NoPlaceholdersVerbatim ==
    (GotFromActiveBundle /\ ret.kwargs = NoKwargs) =>
        \A node \in Addressed :
            (IsStr(node) /\ node.val # <<>>)
                => (ret.raised = "none" /\ ret.result = node)

C22_Witness ==
    /\ GotFromActiveBundle
    /\ ret.kwargs = NoKwargs
    /\ ret.result = PyStr(<<"Age must be at least ", "{", "min", "}">>)
    /\ ret.result \in Addressed

\* the names that occur as keys of the mappings of the sample bundles
SegmentNames == {<<"a">>, <<"b">>, <<"a", ".", "b">>}

\* longest path of names enumerated in a bundle (the sample bundles nest
\* three deep)
MaxDepth == 3

\* the paths of at most n names
NamePaths(n) == UNION {[1..m -> SegmentNames] : m \in 1..n}

RECURSIVE DotJoin(_)
\* the names of a path joined by dots
DotJoin(path) ==
    IF Len(path) = 1 THEN path[1] ELSE path[1] \o <<".">> \o DotJoin(Tail(path))

\* the dot-joined root-to-leaf paths of a bundle: a path counts when it ends
\* on a node that is not a mapping
LeafPaths(bundle) ==
    {DotJoin(path) : path \in {p \in NamePaths(MaxDepth) :
                                  \E node \in NodeAt(bundle, p) : ~IsDict(node)}}

\* C23: flatten of a bundle is exactly the set of its dot-joined root-to-leaf
\* paths, at every depth; interior mappings, empty ones included, add none.
C23_FlattenLeafPaths ==
    Audited =>
        \A lang \in KeySet(_translations) :
            /\ GetAllKeys(Lookup(_translations, lang), <<>>)
                  = LeafPaths(Lookup(_translations, lang))
            /\ ret.result.items.languages[lang].key_count
                  = Cardinality(LeafPaths(Lookup(_translations, lang)))

C23_Witness ==
    /\ Audited
    /\ Has(_translations, Tr)
    /\ Has(_translations, Ko)
    /\ ret.result.items.languages[Tr].key_count = 2
    /\ ret.result.items.languages[Ko].key_count = 3
    /\ <<"b", ".", "a", ".", "a">> \in LeafPaths(Lookup(_translations, Ko))
    /\ <<"b">> \notin LeafPaths(Lookup(_translations, Tr))

\* C24: the audit takes "en" as reference when "en" is loaded and the first
\* loaded bundle otherwise, reports that code and the size of its flattened
\* key set, and returns an empty report for an empty catalog.
C24_AuditReference ==
    ret.op = "validate_keys_consistency" =>
        /\ ret.raised = "none"
        /\ _translations = <<>> => ret.result = PyDict(<<>>)
        /\ _translations # <<>> =>
              LET reference == IF En \in KeySet(_translations) THEN En
                               ELSE _translations[1].lang
              IN  /\ ret.result.items.reference_language = reference
                  /\ ret.result.items.reference_key_count
                        = Cardinality(GetAllKeys(Lookup(_translations, reference), <<>>))

C24_Witness ==
    /\ Audited
    /\ ~Has(_translations, En)
    /\ Len(_translations) = 2
    /\ ret.result.items.reference_language = _translations[1].lang
    /\ ret.result.items.reference_language = Ko
    /\ ret.result.items.reference_key_count = 3

\* C26 as stated: the pointer is "en" or a code with a loaded bundle, and is
\* "en" before the first initialize and after an initialize that raised.
C26_PointerEnAfterFailure ==
    /\ _current_language = En \/ Has(_translations, _current_language)
    /\ ~_is_loaded => _current_language = En
    /\ (ret.op = "initialize" /\ ret.raised = "ValueError") => _current_language = En

\* C26 amended: the pointer is "en" or a code with a loaded bundle, and is
\* "en" before the first initialize; an initialize that raised found no "en"
\* bundle and left the pointer as it was, on "en" or on the loaded code that
\* an earlier call had selected.
C26_PointerKeptAfterFailure ==
    /\ _current_language = En \/ Has(_translations, _current_language)
    /\ ~_is_loaded => _current_language = En
    /\ (ret.op = "initialize" /\ ret.raised = "ValueError")
          => /\ ~Has(_translations, En)
             /\ _current_language = ret.before.language

C26_Witness ==
    /\ ret.op = "initialize"
    /\ ret.raised = "ValueError"
    /\ ret.before.language = Tr
    /\ _current_language = Tr
    /\ Has(_translations, Tr)

\* on a loaded engine the pointer is still "en" and "en" has no bundle: no
\* initialize has selected a language, so the first initialize raised
OnlyFailedSoFar ==
    /\ ret.before.loaded
    /\ ret.before.language = En
    /\ ~Has(ret.before.translations, En)

C28_MissingKeysOnlyGrow ==
    ret.op # "none" =>
        /\ ret.before.missing \subseteq _missing_keys
        /\ ret.op # "get" => _missing_keys = ret.before.missing
        /\ ret.op = "get" => _missing_keys \subseteq ret.before.missing \cup {ret.key}
        /\ (ret.op = "get" /\ (~ret.before.debug \/ ~ret.before.loaded))
              => _missing_keys = ret.before.missing

C28_Witness ==
    /\ ret.op = "get"
    /\ Missed
    /\ ~ret.before.debug
    /\ ret.before.missing # {}
    /\ ret.key \notin ret.before.missing
    /\ _missing_keys = ret.before.missing

RECURSIVE CleanBundle(_)
\* every leaf below node is a non-empty string and no name contains a dot
CleanBundle(node) ==
    IF IsDict(node)
    THEN \A k \in DOMAIN node.items :
            /\ \A i \in DOMAIN k : k[i] # "."
            /\ CleanBundle(node.items[k])
    ELSE IsStr(node) /\ node.val # <<>>

\* C30: on an active bundle whose leaves are all non-empty strings and whose
\* names hold no dot, get(key, default) on a key of flatten(active bundle)
\* returns the value of the leaf at that path, not default.
C30_FlattenKeysResolve ==
    (/\ GotFromActiveBundle
     /\ ret.kwargs = NoKwargs
     /\ CleanBundle(Lookup(_translations, _current_language))
     /\ ret.key \in GetAllKeys(Lookup(_translations, _current_language), <<>>))
        => /\ ret.raised = "none"
           /\ IsStr(ret.result)
           /\ ret.result.val # <<>>
           /\ Addressed = {ret.result}

C30_Witness ==
    /\ GotFromActiveBundle
    /\ ret.kwargs = NoKwargs
    /\ _current_language = Ko
    /\ CleanBundle(Lookup(_translations, Ko))
    /\ ret.key = <<"b", ".", "b">>
    /\ ret.key \in GetAllKeys(Lookup(_translations, Ko), <<>>)
    /\ ret.default = <<"DEFAULT">>
    /\ ret.result = PyStr(<<"50% off ", "}">>)

-----------------------------------------------------------------------------
(* Properties of the callers that share the class.                         *)

\* caller q has its result from a get that read the active bundle
GotResult(q) == callers[q].pc = "returned" /\ callers[q].current # <<>>

\* C25: the pointer is the code that the last successful initialize or
\* set_language of any caller selected, and every get, of every caller,
\* resolves against the bundle of the code the pointer names when get reads
\* it, not against the code its own caller selected last.
C25_SwitchLeaksToOtherCaller ==
    /\ (\A q \in Callers : callers[q].selected = <<>>) => _current_language = En
    /\ (\E q \in Callers : callers[q].selected # <<>>)
          => \E q \in Callers : callers[q].selected = _current_language
    /\ \A q \in Callers :
          GotResult(q) =>
              LET c == callers[q]
                  o == GetOutcome(TRUE, _translations, c.current, _debug_mode,
                                  _missing_keys, c.key, c.default, c.kwargs)
              IN  c.result = o.result /\ c.raised = o.raised

C25_Witness ==
    \E q \in Callers, p \in Callers :
        /\ p # q
        /\ GotResult(q)
        /\ callers[q].selected = En
        /\ callers[p].selected = Tr
        /\ callers[q].current = Tr
        /\ callers[q].key = <<"a", ".", "a">>
        /\ callers[q].result = PyStr(<<"Hosgeldin">>)
        /\ Has(_translations, En)

\* C29: between the read of the pointer and the return, the value a get holds
\* is the node its segments so far address in the bundle of the code the
\* pointer named at the read, whatever the pointer names now; the result is
\* a node of that bundle or the default.
C29_OneBundlePerGet ==
    \A q \in Callers :
        LET c == callers[q]
            bundle == ActiveBundle(_translations, c.current)
        IN  /\ c.pc = "get_iterate"
                  => NodeAt(bundle, SubSeq(c.keys, 1, c.i)) = {c.value}
            /\ GotResult(q)
                  => (c.result = PyStr(c.default) \/ NodeAt(bundle, c.keys) = {c.result})

C29_Witness ==
    \E q \in Callers :
        /\ callers[q].pc = "get_iterate"
        /\ callers[q].i = 1
        /\ Len(callers[q].keys) = 2
        /\ callers[q].current = En
        /\ _current_language = Tr
        /\ callers[q].value = Lookup(_translations, En).items[<<"a">>]
        /\ callers[q].value # Lookup(_translations, Tr).items[<<"a">>]

====
